---- MODULE Spec2Model ----
(***************************************************************************)
(* HabitFlow: the habit completion / undo state machine of one habit of    *)
(* one user (models.py Habit.complete, habits.py complete_habit and        *)
(* undo_completion), the user's local date (models.py User.get_user_date,  *)
(* which follows the wall clock and the user's timezone setting), and the  *)
(* CompletionLog table of that habit.                                      *)
(*                                                                         *)
(* Dates are day numbers.  CompletionLog rows carry no payload besides     *)
(* (habit_id, completed_at), so the table of the habit is the number of    *)
(* rows per date.                                                          *)
(***************************************************************************)
EXTENDS Integers, FiniteSets, Sequences, TLC

\* ---- bounds ----
MaxDay == 4
MaxRows == 2

\* ---- program constants ----
NULL == -1

Clock == 1..MaxDay
TzOffsets == {0, 1}
Dates == 1..(MaxDay + 1)
Workers == {1, 2}

VARIABLES
    clock,      \* the wall clock: the calendar date in the westernmost timezone
    tz,         \* User.timezone, as the day offset of the user's zone
    habit,      \* the Habit row: streak_count, longest_streak, last_completed
    logs,       \* CompletionLog rows of the habit: number of rows per date
    req,        \* in-flight requests of the concurrent specification
    overlap,    \* history: the last load saw the other request in flight on the same row
    maxStreak,  \* history: the largest streak_count the habit has had
    done,       \* history: dates whose completion succeeded and was not undone
    lastOp,     \* history: the last complete/undo request and the state it started from
    prevOp      \* history: the request before lastOp

\* subscription and payments of the user
VARIABLES
    user,          \* the User row: subscription fields and provider linkage
    payments,      \* Payment rows: provider_transaction_id (unique) and status
    subscriptions, \* Subscription rows, in insertion order
    cfg,           \* deployment configuration of the webhook endpoints
    failStreak,    \* history: payment-failure events since the last successful payment event or reset
    lastEv         \* history: the last billing request or webhook and the state it started from

\* badges of the user
VARIABLES
    earned,        \* UserBadge rows of the user: number of rows per badge
    badgeActive,   \* ids of the badges with is_active = True
    lastCheck      \* history: the last call of check_and_award_badges

\* the habit table of a free user, requests of other users, account deletion
VARIABLES
    habitRows,     \* the user's Habit rows: absent, active or archived, per id
    meta,          \* the habit of 'habit': whether the row exists, archived, name
    lastReq,       \* history: the user and route of the last request on the habit
    now,           \* the day on the clock of the purge job
    accounts,      \* User rows with their soft-delete fields and dependent rows
    lastAct,       \* history: the last operation on the accounts
    lastPurge      \* history: the users whose deletion failed for an outside cause in the last run

\* the expiry sweep over the users
VARIABLES
    members,       \* User rows: subscription_tier, subscription_status, end date, habit_limit
    lastSweep      \* history: the last run of check_expired_subscriptions

\* a challenge, its participants and its invites
VARIABLES
    part,          \* ChallengeParticipant.status per user: none (no row), active or left
    cap,           \* Challenge.max_participants, 0 while there is no challenge
    invites,       \* ChallengeInvite rows, by id
    lastJoin       \* history: the last accept_invite request and what it started from

\* a participant of the challenge, the habits linked to it and the cached progress
VARIABLES
    pstatus,       \* ChallengeParticipant.status of the participant
    links,         \* HabitChallengeLink rows of the challenge, per habit of the participant
    hstats,        \* the participant's habits and the number of their CompletionLog rows
    progress,      \* the cached statistics of the ChallengeParticipant row
    lastLink       \* history: the last request of the participant

\* manual payment requests and the users who file them
VARIABLES
    requests,      \* PaymentRequest rows in the order of their ids
    subscribers,   \* User rows: the subscription columns approve_request writes
    lastApprove    \* history: the last approve_request that passed its guards

\* the daily reminder of one user
VARIABLES
    rclock,        \* the UTC day
    ruser,         \* User row: timezone, notification settings, last_reminder_sent
    rhabits,       \* Habit rows of the user: archived, last_completed
    sent,          \* history: the number of reminder emails delivered, per user-local date
    lastRun        \* history: the last call of send_daily_reminder

habitVars == <<clock, tz, habit, logs, req, overlap, maxStreak, done, lastOp, prevOp>>
payVars == <<user, payments, subscriptions, cfg, failStreak, lastEv>>

badgeVars == <<earned, badgeActive, lastCheck>>
limitVars == <<habitRows>>
ownerVars == <<meta, lastReq>>
purgeVars == <<now, accounts, lastAct, lastPurge>>
sweepVars == <<members, lastSweep>>
chalVars == <<part, cap, invites, lastJoin>>
linkVars == <<pstatus, links, hstats, progress, lastLink>>
manVars == <<requests, subscribers, lastApprove>>
remVars == <<rclock, ruser, rhabits, sent, lastRun>>
laterVars == <<sweepVars, chalVars, linkVars, manVars, remVars>>
nonSweepVars == <<chalVars, linkVars, manVars, remVars>>
nonChalVars == <<sweepVars, linkVars, manVars, remVars>>
nonLinkVars == <<sweepVars, chalVars, manVars, remVars>>
nonManVars == <<sweepVars, chalVars, linkVars, remVars>>
nonRemVars == <<sweepVars, chalVars, linkVars, manVars>>
nonHabitVars == <<payVars, badgeVars, limitVars, ownerVars, purgeVars, laterVars>>
nonPayVars == <<habitVars, badgeVars, limitVars, ownerVars, purgeVars, laterVars>>
firstVars == <<habitVars, payVars, badgeVars, limitVars, ownerVars, purgeVars>>

vars == <<habitVars, payVars, badgeVars, limitVars, ownerVars, purgeVars, laterVars>>

\* ---- pure functions ----

Max(a, b) == IF a > b THEN a ELSE b

\* User.get_user_date: the date in the user's timezone
get_user_date == clock + tz

NewHabit == [streak_count |-> 0, longest_streak |-> 0, last_completed |-> NULL]

\* Habit.complete that continues the streak after any earlier completion
Habit_complete_AnyGap(h, today) ==
    IF h.last_completed = today
    THEN [ret |-> FALSE, h |-> h]
    ELSE LET sc == IF h.last_completed # NULL THEN h.streak_count + 1 ELSE 1
             ls == IF sc > h.longest_streak THEN sc ELSE h.longest_streak
         IN [ret |-> TRUE,
             h |-> [streak_count |-> sc, longest_streak |-> ls, last_completed |-> today]]

\* Habit.complete without the already-completed-today check
Habit_complete_NoGuard(h, today) ==
    LET sc == IF h.last_completed # NULL
              THEN (IF h.last_completed = today - 1
                    THEN h.streak_count + 1
                    ELSE 1)
              ELSE 1
        ls == IF sc > h.longest_streak THEN sc ELSE h.longest_streak
    IN [ret |-> TRUE,
        h |-> [streak_count |-> sc, longest_streak |-> ls, last_completed |-> today]]

\* Habit.complete that never records a new longest streak
Habit_complete_NoRecord(h, today) ==
    IF h.last_completed = today
    THEN [ret |-> FALSE, h |-> h]
    ELSE LET sc == IF h.last_completed # NULL
                   THEN (IF h.last_completed = today - 1
                         THEN h.streak_count + 1
                         ELSE 1)
                   ELSE 1
         IN [ret |-> TRUE,
             h |-> [streak_count |-> sc, longest_streak |-> h.longest_streak,
                    last_completed |-> today]]

\* Habit.complete(today): the returned flag and the habit afterwards
Habit_complete(h, today) ==
    IF h.last_completed = today
    THEN [ret |-> FALSE, h |-> h]
    ELSE LET sc == IF h.last_completed # NULL
                   THEN (IF h.last_completed = today - 1
                         THEN h.streak_count + 1
                         ELSE 1)
                   ELSE 1
             ls == IF sc > h.longest_streak THEN sc ELSE h.longest_streak
         IN [ret |-> TRUE,
             h |-> [streak_count |-> sc, longest_streak |-> ls, last_completed |-> today]]

\* db.session.add(CompletionLog(habit_id, completed_at=today))
AddLog(l, today) == [l EXCEPT ![today] = @ + 1]

\* an undo that finds no row to delete
DeleteFirstLog_Keep(l, today) == l

\* CompletionLog.query.filter_by(habit_id, completed_at=today).first(); delete if found
DeleteFirstLog(l, today) == IF l[today] > 0 THEN [l EXCEPT ![today] = @ - 1] ELSE l

\* the previous-completion query ordered ascending: the oldest earlier log
PreviousCompletion_Oldest(l, today) ==
    LET earlier == {d \in Dates : d < today /\ l[d] > 0}
    IN IF earlier = {} THEN NULL
       ELSE CHOOSE d \in earlier : \A e \in earlier : d <= e

\* CompletionLog.query.filter(completed_at < today).order_by(desc).first(): its date, or NULL
PreviousCompletion(l, today) ==
    LET earlier == {d \in Dates : d < today /\ l[d] > 0}
    IN IF earlier = {} THEN NULL
       ELSE CHOOSE d \in earlier : \A e \in earlier : e <= d

\* a recalculation that also takes the longest streak back
UndoRecalc_LowerLongest(h, prev, today) ==
    IF prev # NULL
    THEN [streak_count |-> IF prev = today - 1 THEN Max(0, h.streak_count - 1) ELSE 0,
          longest_streak |-> IF prev = today - 1 THEN Max(0, h.streak_count - 1) ELSE 0,
          last_completed |-> prev]
    ELSE [streak_count |-> 0, longest_streak |-> 0, last_completed |-> NULL]

\* a recalculation that clears last_completed whenever the streak is reset
UndoRecalc_ClearDate(h, prev, today) ==
    IF prev # NULL /\ prev = today - 1
    THEN [h EXCEPT !.streak_count = Max(0, h.streak_count - 1),
                   !.last_completed = prev]
    ELSE [h EXCEPT !.streak_count = 0, !.last_completed = NULL]

\* an undo guard that only asks for some completion
UndoAllowed_AnyDate(h, today) == h.last_completed # NULL

\* undo_completion's guard: the habit was completed today
UndoAllowed(h, today) == h.last_completed = today

\* the streak recalculation of undo_completion
UndoRecalc(h, prev, today) ==
    IF prev # NULL
    THEN [h EXCEPT !.streak_count = IF prev = today - 1
                                    THEN Max(0, h.streak_count - 1)
                                    ELSE 0,
                   !.last_completed = prev]
    ELSE [h EXCEPT !.streak_count = 0, !.last_completed = NULL]

NoOp == [op |-> "none", today |-> 0, ret |-> FALSE, pre |-> NewHabit,
         preLogs |-> [d \in Dates |-> 0]]

IdleReq == [pc |-> "idle", snap |-> NewHabit, cur |-> NewHabit, today |-> 0, ret |-> FALSE]

\* ---- subscription and payments: data ----

\* bounds
MaxInvoice == 1
MaxFail == 3

\* program constants
FailureThreshold == 3
FreeHabitLimit == 3
UnlimitedHabits == 999999

\* the recurring tiers.  'annual' is handled as 'monthly' everywhere, with a
\* period of 365 instead of 30 days; the end dates below do not tell the two
\* lengths apart, so one recurring tier stands for both.
Recurring == {"monthly"}
PaidTiers == Recurring \cup {"lifetime"}
Invoices == 1..MaxInvoice

\* subscription_end_date relative to utcnow(): unset, already passed, still ahead
EndDates == {"none", "past", "future"}

\* a User row as created by registration
NewUser == [tier |-> "free", status |-> "active", habit_limit |-> FreeHabitLimit,
            payment_failures |-> 0, end |-> "none",
            stripe_customer |-> FALSE, stripe_sub |-> FALSE, paypal_sub |-> FALSE]

\* the end date set by a purchase or renewal of 'tier': utcnow() + 30 or 365 days
\* for the recurring tiers, None for lifetime, untouched for any other tier
EndDateFor(tier, old) ==
    IF tier \in Recurring THEN "future"
    ELSE IF tier = "lifetime" THEN "none" ELSE old

\* User.is_premium_active, its return value
is_premium_active(u) ==
    \/ u.tier = "lifetime"
    \/ u.tier \in Recurring /\ u.end = "future"

HasTxn(P, txn) == \E p \in P : p.txn = txn

\* db.session.add(Payment(...)); db.session.commit() followed by the handler's
\* except: db.session.rollback().  Payment.provider_transaction_id is unique:
\* the commit of a second row with a stored id raises and everything the
\* session changed is rolled back to 'db0'.
CommitWithPayment(db0, db1, txn, status) ==
    IF HasTxn(db0.payments, txn)
    THEN db0
    ELSE [db1 EXCEPT !.payments = @ \cup {[txn |-> txn, status |-> status]}]

\* the forced downgrade of the failure handlers
Downgraded(u) ==
    [u EXCEPT !.tier = "free", !.status = "expired", !.end = "past",
              !.habit_limit = FreeHabitLimit]

\* ---- Stripe event handlers ----

handle_checkout_completed(db, e) ==
    IF db.user.tier # e.tier
    THEN [db EXCEPT !.user = [db.user EXCEPT
                                  !.tier = e.tier,
                                  !.status = "active",
                                  !.end = EndDateFor(e.tier, db.user.end),
                                  !.stripe_sub = IF e.tier \in Recurring
                                                 THEN TRUE ELSE db.user.stripe_sub]]
    ELSE db

handle_subscription_updated(db, e) ==
    IF ~db.user.stripe_customer THEN db
    ELSE IF e.opt = "cancel_at_period_end"
         THEN [db EXCEPT !.user = [@ EXCEPT !.status = "cancelled", !.end = "future"]]
         ELSE IF e.opt = "active"
              THEN [db EXCEPT !.user = [@ EXCEPT !.status = "active"]]
              ELSE db

handle_subscription_deleted(db, e) ==
    IF ~db.user.stripe_customer THEN db
    ELSE [db EXCEPT !.user = [@ EXCEPT !.tier = "free", !.status = "expired",
                                       !.end = "past", !.stripe_sub = FALSE,
                                       !.habit_limit = FreeHabitLimit]]

handle_invoice_payment_succeeded(db, e) ==
    IF ~db.user.stripe_customer THEN db
    ELSE LET u1 == [db.user EXCEPT !.payment_failures = 0,
                                   !.end = IF db.user.tier \in Recurring
                                           THEN "future" ELSE @]
             txn == IF e.opt = "payment_intent" THEN <<"pi", e.id>> ELSE <<"in", e.id>>
         IN CommitWithPayment(db, [db EXCEPT !.user = u1], txn, "completed")

handle_payment_failed(db, e) ==
    IF ~db.user.stripe_customer THEN db
    ELSE LET u1 == [db.user EXCEPT !.payment_failures = @ + 1]
             u2 == IF u1.payment_failures >= FailureThreshold THEN Downgraded(u1) ELSE u1
         IN CommitWithPayment(db, [db EXCEPT !.user = u2], <<"in", e.id>>, "failed")

\* ---- PayPal event handlers ----

\* Subscription.query.filter_by(payment_provider='paypal', status='active').first()
\* the index of the row, 0 when there is none
FirstActive(subs, provider) ==
    LET I == {i \in 1..Len(subs) : subs[i].provider = provider /\ subs[i].status = "active"}
    IN IF I = {} THEN 0 ELSE CHOOSE i \in I : \A j \in I : i <= j

handle_paypal_subscription_activated(db, e) == db

handle_paypal_subscription_updated(db, e) ==
    IF ~db.user.paypal_sub THEN db
    ELSE IF e.opt = "ACTIVE"
         THEN [db EXCEPT !.user = [db.user EXCEPT !.status = "active"]]
         ELSE IF e.opt = "SUSPENDED"
              THEN [db EXCEPT !.user = [db.user EXCEPT !.status = "suspended"]]
              ELSE IF e.opt = "CANCELLED"
                   THEN [db EXCEPT !.user = [db.user EXCEPT !.status = "cancelled"]]
                   ELSE db

handle_paypal_subscription_cancelled(db, e) ==
    IF ~db.user.paypal_sub THEN db
    ELSE LET u1 == [db.user EXCEPT !.status = "cancelled", !.tier = "free",
                                   !.habit_limit = FreeHabitLimit, !.end = "past"]
             i == FirstActive(db.subscriptions, "paypal")
         IN [db EXCEPT !.user = u1,
                       !.subscriptions = IF i = 0 THEN @
                                         ELSE [@ EXCEPT ![i].status = "cancelled"]]

handle_paypal_subscription_suspended(db, e) ==
    IF ~db.user.paypal_sub THEN db
    ELSE LET u1 == [db.user EXCEPT !.payment_failures = @ + 1, !.status = "suspended"]
         IN [db EXCEPT !.user = IF u1.payment_failures >= FailureThreshold
                                THEN Downgraded(u1) ELSE u1]

handle_paypal_payment_completed(db, e) ==
    IF ~db.user.paypal_sub THEN db
    ELSE LET u1 == [db.user EXCEPT !.payment_failures = 0,
                                   !.end = IF db.user.tier \in Recurring
                                           THEN "future" ELSE @]
         IN CommitWithPayment(db, [db EXCEPT !.user = u1], <<"sale", e.id>>, "completed")

\* ---- Coinbase event handlers ----

handle_coinbase_charge_confirmed(db, e) ==
    IF e.tier # "lifetime" THEN db
    ELSE IF db.user.tier # "lifetime"
         THEN LET u1 == [db.user EXCEPT !.tier = "lifetime", !.status = "active",
                                        !.end = "none", !.payment_failures = 0,
                                        !.habit_limit = UnlimitedHabits]
                  s1 == Append(db.subscriptions,
                               [provider |-> "coinbase", tier |-> "lifetime",
                                status |-> "active"])
              IN CommitWithPayment(db, [db EXCEPT !.user = u1, !.subscriptions = s1],
                                   <<"charge", e.id>>, "completed")
         ELSE db

handle_coinbase_charge_failed(db, e) ==
    CommitWithPayment(db, db, <<"charge", e.id>>, "failed")

handle_coinbase_charge_pending(db, e) == db

\* ---- TiloPay ----

\* TiloPayHandler.process_payment_success
process_payment_success(db, e) ==
    LET u1 == [db.user EXCEPT !.tier = e.tier, !.status = "active",
                              !.payment_failures = 0,
                              !.end = EndDateFor(e.tier, db.user.end)]
        s1 == Append(db.subscriptions,
                     [provider |-> "tilopay", tier |-> e.tier, status |-> "active"])
    IN CommitWithPayment(db, [db EXCEPT !.user = u1, !.subscriptions = s1],
                         <<"tilo", e.id>>, "completed")

\* ---- webhook events, deployment configuration, history records ----

Ev(provider, type, id, tier, opt) ==
    [provider |-> provider, type |-> type, id |-> id, tier |-> tier, opt |-> opt]

StripeEvents ==
    {Ev("stripe", "checkout.session.completed", 0, t, "") : t \in PaidTiers}
    \cup {Ev("stripe", "customer.subscription.updated", 0, "", o) :
            o \in {"cancel_at_period_end", "active", "past_due"}}
    \cup {Ev("stripe", "customer.subscription.deleted", 0, "", "")}
    \cup {Ev("stripe", "invoice.payment_succeeded", i, "", o) :
            i \in Invoices, o \in {"payment_intent", "no_payment_intent"}}
    \cup {Ev("stripe", "invoice.payment_failed", i, "", "") : i \in Invoices}

PayPalEvents ==
    {Ev("paypal", "BILLING.SUBSCRIPTION.ACTIVATED", 0, "", "")}
    \cup {Ev("paypal", "BILLING.SUBSCRIPTION.UPDATED", 0, "", o) :
            o \in {"ACTIVE", "SUSPENDED", "CANCELLED"}}
    \cup {Ev("paypal", "BILLING.SUBSCRIPTION.CANCELLED", 0, "", "")}
    \cup {Ev("paypal", "BILLING.SUBSCRIPTION.SUSPENDED", 0, "", "")}
    \cup {Ev("paypal", "PAYMENT.SALE.COMPLETED", i, "", "") : i \in Invoices}

CoinbaseEvents ==
    {Ev("coinbase", t, 1, "lifetime", "") :
        t \in {"charge:confirmed", "charge:failed", "charge:pending"}}

TiloPayEvents ==
    {Ev("tilopay", "completed", 1, t, "") : t \in PaidTiers}
    \cup {Ev("tilopay", "failed", 1, "monthly", "")}

Providers == {"stripe", "paypal", "coinbase", "tilopay"}

\* the deployment (config.py reads every setting from the environment):
\* 'provider' is the payment provider the deployment sells through, the one
\* that sends it genuine events; 'secrets_set' tells whether the webhook
\* secrets (STRIPE_WEBHOOK_SECRET, PAYPAL_WEBHOOK_ID,
\* COINBASE_COMMERCE_WEBHOOK_SECRET, TILOPAY_WEBHOOK_SECRET) are set;
\* 'paypal_live' is PAYPAL_MODE = 'live' (default 'sandbox')
Configs ==
    {c \in [provider : Providers, secrets_set : BOOLEAN, paypal_live : BOOLEAN] :
        c.paypal_live => c.provider = "paypal"}

FullConfig == [provider |-> "stripe", secrets_set |-> TRUE, paypal_live |-> FALSE]

\* a signature that verifies exists only on a genuine event, and only against
\* a secret that is set
Genuine(c, provider) == c.provider = provider /\ c.secrets_set

NoDB == [user |-> NewUser, payments |-> {}, subscriptions |-> <<>>]

\* 'repeat': the delivery repeats the event handled just before it;
\* 'after': the provider at which the request just before it cancelled the subscription
NoEv == [kind |-> "none", ev |-> Ev("", "", 0, "", ""), sig |-> FALSE, handled |-> FALSE,
         pre |-> NoDB, repeat |-> FALSE, after |-> ""]

\* a registered user on the free tier, nothing bought, nothing delivered
PayInit ==
    /\ user = NewUser
    /\ payments = {}
    /\ subscriptions = <<>>
    /\ failStreak = 0
    /\ lastEv = NoEv

\* ---- badges: data ----

\* bounds: the thresholds of the streak and total-completion badges
StreakBadgeDays == 2
TotalBadgeCount == 2

\* the catalogue: one badge of each requirement type that the data of a habit
\* decides (BADGE_DEFINITIONS: first-steps, the streak badges, the
\* total-completion badges)
Badges ==
    {[id |-> 1, requirement_type |-> "any_completion", requirement_value |-> 1],
     [id |-> 2, requirement_type |-> "streak_days", requirement_value |-> StreakBadgeDays],
     [id |-> 3, requirement_type |-> "total_completions",
      requirement_value |-> TotalBadgeCount]}

BadgeIds == {b.id : b \in Badges}

RECURSIVE CountRows(_, _)
\* CompletionLog.query.join(Habit).filter(Habit.user_id == user.id).count(),
\* over the dates up to d
CountRows(l, d) == IF d = 0 THEN 0 ELSE l[d] + CountRows(l, d - 1)

\* check_badge_requirement: "true", "false", or "raise" when the evaluation
\* raises.  The streak_days branch reads Habit.current_streak; Habit has the
\* columns streak_count and longest_streak and no attribute current_streak, so
\* the attribute access raises AttributeError.
check_badge_requirement(b, h, l) ==
    IF b.requirement_type \in {"any_completion", "total_completions"}
    THEN IF CountRows(l, MaxDay + 1) >= b.requirement_value THEN "true" ELSE "false"
    ELSE IF b.requirement_type = "streak_days" THEN "raise"
    ELSE "false"

\* the requirement as the badge describes it: a number of completions, or a
\* current or best streak of the given number of days
RequirementMet(b, h, l) ==
    IF b.requirement_type \in {"any_completion", "total_completions"}
    THEN CountRows(l, MaxDay + 1) >= b.requirement_value
    ELSE Max(h.streak_count, h.longest_streak) >= b.requirement_value

NoCheck == [called |-> FALSE, raised |-> FALSE, again |-> FALSE, avail |-> {},
            met |-> {}, awarded |-> {}, snap |-> <<NewHabit, [d \in Dates |-> 0]>>]

\* no badge earned; the catalogue as initialize_badges creates it
BadgeInit ==
    /\ earned = [b \in BadgeIds |-> 0]
    /\ lastCheck = NoCheck

\* ---- habit table, ownership, accounts: data ----

\* bounds
MaxHabits == 5
MaxNow == 32

\* program constants
GraceDays == 30

HabitIds == 1..MaxHabits
Users == {1, 2}
Owner == 1
Names == {1, 2}

\* the Habit row of 'habit' as add_habit creates it
NewMeta == [exists |-> TRUE, archived |-> FALSE, name |-> 1]
NoReq == [user |-> Owner, route |-> "none"]

\* a registered User with a habit and a completion log
\* 'participations': ChallengeParticipant rows of the user
NewAccount == [exists |-> TRUE, account_deleted |-> FALSE,
               deletion_scheduled_date |-> NULL, habits |-> 1, logs |-> 1,
               participations |-> 0]

\* ---- the users of the expiry sweep ----

AllTiers == {"free", "monthly", "annual", "lifetime"}

\* a User row as created by registration
NewMember == [tier |-> "free", status |-> "active", end |-> "none",
              habit_limit |-> FreeHabitLimit]

NoSweep == [ran |-> FALSE, pre |-> [u \in Users |-> NewMember], count |-> 0]

SweepInit ==
    /\ members = [u \in Users |-> NewMember]
    /\ lastSweep = NoSweep

\* ---- a challenge ----

MaxUsers == 3
MaxCap == 2
MaxInvites == 4

ChallengeUsers == 1..MaxUsers
Creator == 1
InviteIds == 1..MaxInvites

\* no ChallengeInvite row with this id
NoInvite == [exists |-> FALSE, shareable |-> FALSE, status |-> "pending", expired |-> FALSE]

\* 'inv': the invite row and 'was': the user's participation before the request
\* and 'count' the number of active participants before the request
NoJoin == [route |-> "none", user |-> Creator, result |-> "", was |-> "none",
           inv |-> NoInvite, count |-> 0]

\* no challenge yet
ChalInit ==
    /\ part = [u \in ChallengeUsers |-> "none"]
    /\ cap = 0
    /\ invites = [i \in InviteIds |-> NoInvite]
    /\ lastJoin = NoJoin

\* ---- habits linked to a challenge ----

MaxLinkHabits == 2
MaxLinkDay == 2

LinkHabits == 1..MaxLinkHabits
LinkDates == 1..MaxLinkDay

NoLink == [rows |-> 0, active |-> FALSE]

\* the statistics of a ChallengeParticipant row just inserted
ZeroProgress == [current_streak |-> 0, longest_streak |-> 0, total_completions |-> 0,
                 last_activity |-> NULL]

NoLinkReq == [route |-> "none", habit |-> 0, ok |-> FALSE, was |-> "none"]

\* a user who has just joined the challenge, with habits never completed
LinkInit ==
    /\ pstatus = "active"
    /\ links = [h \in LinkHabits |-> NoLink]
    /\ hstats = [h \in LinkHabits |-> [habit |-> NewHabit, completions |-> 0]]
    /\ progress = ZeroProgress
    /\ lastLink = NoLinkReq

\* ---- manual payment requests ----

MaxRequests == 3
ManualHabitLimit == 999

ManualUsers == {1, 2}
RequestIds == 1..MaxRequests

\* the plans of PRICING
PRICING == {"monthly", "annual", "lifetime"}

\* the <tier> a request URL can carry
RequestTiers == PRICING \cup {"weekly"}

\* the columns of a PaymentRequest row the handlers read and write
PaymentRequest(u, tier) == [user |-> u, tier |-> tier, status |-> "pending"]

\* a user after registration
NewSubscriber == [tier |-> "free", status |-> "active", end |-> "none",
                  habit_limit |-> FreeHabitLimit]

NoApprove == [req |-> 0, result |-> "none"]

ManInit ==
    /\ requests = <<>>
    /\ subscribers = [u \in ManualUsers |-> NewSubscriber]
    /\ lastApprove = NoApprove

\* ---- the daily reminder ----

MaxRemDay == 2
MaxRemHabits == 2
MaxSent == 2

RemClock == 1..MaxRemDay
RemDates == 1..(MaxRemDay + 1)
RemHabits == 1..MaxRemHabits
ReminderDays == {"all", "weekdays", "weekends"}

\* a user after registration, in timezone offset 0
NewReminderUser == [timezone |-> 0, email_notifications_enabled |-> TRUE,
                    reminder_days |-> "all", last_reminder_sent |-> NULL]

NoRun == [result |-> "none", date |-> NULL]

RemInit ==
    /\ rclock = 1
    /\ ruser = NewReminderUser
    /\ rhabits = [h \in RemHabits |-> [archived |-> FALSE, last_completed |-> NULL]]
    /\ sent = [d \in RemDates |-> 0]
    /\ lastRun = NoRun

LaterInit == SweepInit /\ ChalInit /\ LinkInit /\ ManInit /\ RemInit

ExtraInit ==
    /\ LaterInit
    /\ habitRows = [i \in HabitIds |-> "none"]
    /\ meta = NewMeta
    /\ lastReq = NoReq
    /\ now = 0
    /\ accounts = [u \in Users |-> NewAccount]
    /\ lastAct = "none"
    /\ lastPurge = {}

\* ---- initial state: a habit just created by add_habit, no request in flight ----
HabitInit ==
    /\ clock = 1
    /\ tz \in TzOffsets
    /\ habit = NewHabit
    /\ logs = [d \in Dates |-> 0]
    /\ req = [w \in Workers |-> IdleReq]
    /\ overlap = FALSE
    /\ maxStreak = 0
    /\ done = {}
    /\ lastOp = NoOp
    /\ prevOp = NoOp

Init ==
    /\ HabitInit
    /\ PayInit
    /\ cfg = FullConfig
    /\ BadgeInit
    /\ ExtraInit
    /\ badgeActive = BadgeIds

\* ---- the environment ----

\* midnight passes
Tick ==
    /\ clock < MaxDay
    /\ clock' = clock + 1
    /\ UNCHANGED <<tz, habit, logs, req, overlap, maxStreak, done, lastOp, prevOp>>
    /\ UNCHANGED nonHabitVars

\* profile.settings / auth.settings: the user selects another timezone
settings ==
    /\ \E z \in TzOffsets : z # tz /\ tz' = z
    /\ UNCHANGED <<clock, habit, logs, req, overlap, maxStreak, done, lastOp, prevOp>>
    /\ UNCHANGED nonHabitVars

\* ---- requests processed one at a time ----

\* complete_habit past the ownership check
CompleteStep ==
    LET today == get_user_date
        r == Habit_complete(habit, today)
    IN /\ r.ret => logs[today] < MaxRows
       /\ habit' = r.h
       /\ logs' = IF r.ret THEN AddLog(logs, today) ELSE logs
       /\ maxStreak' = Max(maxStreak, r.h.streak_count)
       /\ done' = IF r.ret THEN done \cup {today} ELSE done
       /\ lastOp' = [op |-> "complete", today |-> today, ret |-> r.ret,
                     pre |-> habit, preLogs |-> logs]
       /\ prevOp' = lastOp
       /\ UNCHANGED <<clock, tz, req, overlap>>

\* POST /<habit_id>/complete by the owner
complete_habit == CompleteStep /\ UNCHANGED nonHabitVars

\* undo_completion past the ownership check
UndoStep ==
    LET today == get_user_date
    IN /\ IF ~UndoAllowed(habit, today)
          THEN /\ UNCHANGED <<habit, logs, done>>
               /\ lastOp' = [op |-> "undo", today |-> today, ret |-> FALSE,
                             pre |-> habit, preLogs |-> logs]
          ELSE LET l1 == DeleteFirstLog(logs, today)
                   prev == PreviousCompletion(l1, today)
               IN /\ logs' = l1
                  /\ habit' = UndoRecalc(habit, prev, today)
                  /\ done' = done \ {today}
                  /\ lastOp' = [op |-> "undo", today |-> today, ret |-> TRUE,
                                pre |-> habit, preLogs |-> logs]
       /\ prevOp' = lastOp
       /\ UNCHANGED <<clock, tz, req, overlap, maxStreak>>

\* POST /<habit_id>/undo by the owner
undo_completion == UndoStep /\ UNCHANGED nonHabitVars

Next == Tick \/ settings \/ complete_habit \/ undo_completion

Spec == Init /\ [][Next]_vars

\* requests one at a time under a fixed timezone: 'today' never goes back
NextMono == Tick \/ complete_habit \/ undo_completion

SpecMono == Init /\ [][NextMono]_vars

\* ---- concurrent requests: each request runs in its own session ----

InFlight(w) == req[w].pc \in {"loaded", "checked"}

\* an UPDATE that adds the session's change to the stored streak
FlushUpdate_Relative(row, snap, cur) ==
    [streak_count |-> row.streak_count + (cur.streak_count - snap.streak_count),
     longest_streak |-> IF cur.longest_streak # snap.longest_streak
                        THEN cur.longest_streak ELSE row.longest_streak,
     last_completed |-> IF cur.last_completed # snap.last_completed
                        THEN cur.last_completed ELSE row.last_completed]

\* the UPDATE a session flush emits: only the columns whose value differs from
\* the loaded one are written, each with the session's absolute value
FlushUpdate(row, snap, cur) ==
    [streak_count |-> IF cur.streak_count # snap.streak_count
                      THEN cur.streak_count ELSE row.streak_count,
     longest_streak |-> IF cur.longest_streak # snap.longest_streak
                        THEN cur.longest_streak ELSE row.longest_streak,
     last_completed |-> IF cur.last_completed # snap.last_completed
                        THEN cur.last_completed ELSE row.last_completed]

\* complete_habit, first step: habit = Habit.query.get_or_404(habit_id)
ReqLoad(w) ==
    /\ req[w].pc \in {"idle", "done", "failed"}
    /\ req' = [req EXCEPT ![w] = [pc |-> "loaded", snap |-> habit, cur |-> habit,
                                  today |-> 0, ret |-> FALSE]]
    /\ overlap' = (\E o \in Workers \ {w} : InFlight(o) /\ req[o].snap = habit)
    /\ UNCHANGED <<clock, tz, habit, logs, maxStreak, done, lastOp, prevOp>>
    /\ UNCHANGED nonHabitVars

\* complete_habit, second step: today = get_user_date(); habit.complete(today)
\* on the session's copy; on False the request ends without a commit,
\* otherwise the CompletionLog row is added to the session
ReqComplete(w) ==
    /\ req[w].pc = "loaded"
    /\ LET today == get_user_date
           r == Habit_complete(req[w].cur, today)
       IN req' = [req EXCEPT ![w] = [pc |-> IF r.ret THEN "checked" ELSE "done",
                                     snap |-> req[w].snap, cur |-> r.h,
                                     today |-> today, ret |-> FALSE]]
    /\ UNCHANGED <<clock, tz, habit, logs, overlap, maxStreak, done, lastOp, prevOp>>
    /\ UNCHANGED nonHabitVars

\* complete_habit, last step: db.session.commit()
ReqCommit(w) ==
    /\ req[w].pc = "checked"
    /\ logs[req[w].today] < MaxRows
    /\ habit' = FlushUpdate(habit, req[w].snap, req[w].cur)
    /\ logs' = AddLog(logs, req[w].today)
    /\ req' = [req EXCEPT ![w].pc = "done", ![w].ret = TRUE]
    /\ maxStreak' = Max(maxStreak, habit'.streak_count)
    /\ done' = done \cup {req[w].today}
    /\ UNCHANGED <<clock, tz, overlap, lastOp, prevOp>>
    /\ UNCHANGED nonHabitVars

\* a commit that persisted the UPDATE of the habit and then lost the INSERT
ReqCommitFail_Partial(w) ==
    /\ req[w].pc = "checked"
    /\ habit' = [habit EXCEPT !.streak_count = req[w].cur.streak_count,
                              !.longest_streak = req[w].cur.longest_streak,
                              !.last_completed = req[w].cur.last_completed]
    /\ req' = [req EXCEPT ![w].pc = "failed"]
    /\ maxStreak' = Max(maxStreak, habit'.streak_count)
    /\ UNCHANGED <<clock, tz, logs, overlap, done, lastOp, prevOp>>
    /\ UNCHANGED nonHabitVars

\* complete_habit, last step when db.session.commit() raises: the transaction
\* that holds the UPDATE and the INSERT is rolled back as a whole and the
\* request ends with an error
ReqCommitFail(w) ==
    /\ req[w].pc = "checked"
    /\ req' = [req EXCEPT ![w].pc = "failed"]
    /\ UNCHANGED <<clock, tz, habit, logs, overlap, maxStreak, done, lastOp, prevOp>>
    /\ UNCHANGED nonHabitVars

NextConc ==
    \/ Tick
    \/ \E w \in Workers : ReqLoad(w)
    \/ \E w \in Workers : ReqComplete(w)
    \/ \E w \in Workers : ReqCommit(w)
    \/ \E w \in Workers : ReqCommitFail(w)

SpecConc == Init /\ [][NextConc]_vars

\* ---- subscription and payments: endpoints and routes ----

DB == [user |-> user, payments |-> payments, subscriptions |-> subscriptions]

FailureEvents == {"invoice.payment_failed", "BILLING.SUBSCRIPTION.SUSPENDED"}
RenewalEvents == {"invoice.payment_succeeded", "PAYMENT.SALE.COMPLETED"}

\* the event is about this user: the handler's lookup finds the row
FoundIn(u, e) ==
    IF e.provider = "stripe" THEN u.stripe_customer
    ELSE IF e.provider = "paypal" THEN u.paypal_sub ELSE TRUE

Found(e) == FoundIn(user, e)

\* the state after a request or delivery, and its record in the history; of a
\* request that was turned away the history keeps the endpoint only
Record(kind, e, sig, handled, post) ==
    /\ user' = post.user
    /\ payments' = post.payments
    /\ subscriptions' = post.subscriptions
    /\ lastEv' = [kind |-> kind,
                  ev |-> IF handled THEN e ELSE Ev(e.provider, "", 0, "", e.opt),
                  sig |-> sig, handled |-> handled, pre |-> DB,
                  repeat |-> /\ kind = "webhook" /\ handled
                             /\ lastEv.kind = "webhook" /\ lastEv.handled
                             /\ lastEv.ev = e,
                  after |-> IF lastEv.ev.type = "cancel_subscription" /\ lastEv.handled
                            THEN lastEv.ev.opt ELSE ""]
    /\ failStreak' = IF handled /\ Found(e) /\ e.type \in FailureEvents
                     THEN failStreak + 1
                     ELSE IF \/ handled /\ Found(e) /\ e.type \in RenewalEvents
                             \/ post.user.payment_failures < user.payment_failures
                          THEN 0 ELSE failStreak
    /\ UNCHANGED <<cfg, nonPayVars>>

\* the failure counters stay within the bound
WithinBounds(e) ==
    e.type \in FailureEvents => (user.payment_failures < MaxFail /\ failStreak < MaxFail)

StripeDispatch(db, e) ==
    IF e.type = "checkout.session.completed" THEN handle_checkout_completed(db, e)
    ELSE IF e.type = "customer.subscription.updated" THEN handle_subscription_updated(db, e)
    ELSE IF e.type = "customer.subscription.deleted" THEN handle_subscription_deleted(db, e)
    ELSE IF e.type = "invoice.payment_succeeded" THEN handle_invoice_payment_succeeded(db, e)
    ELSE IF e.type = "invoice.payment_failed" THEN handle_payment_failed(db, e)
    ELSE db

\* POST /webhooks/stripe.  'sig': the Stripe-Signature header verifies against
\* STRIPE_WEBHOOK_SECRET.  A checkout session exists only after
\* create_stripe_checkout_session stored the customer.
stripe_webhook ==
    \E e \in StripeEvents, sig \in BOOLEAN :
        /\ sig => Genuine(cfg, "stripe")
        /\ e.type = "checkout.session.completed" => user.stripe_customer
        /\ WithinBounds(e)
        /\ LET accepted == cfg.secrets_set /\ sig
           IN Record("webhook", e, sig, accepted,
                     IF accepted THEN StripeDispatch(DB, e) ELSE DB)

PayPalDispatch(db, e) ==
    IF e.type = "BILLING.SUBSCRIPTION.ACTIVATED"
    THEN handle_paypal_subscription_activated(db, e)
    ELSE IF e.type = "BILLING.SUBSCRIPTION.UPDATED"
    THEN handle_paypal_subscription_updated(db, e)
    ELSE IF e.type = "BILLING.SUBSCRIPTION.CANCELLED"
    THEN handle_paypal_subscription_cancelled(db, e)
    ELSE IF e.type = "BILLING.SUBSCRIPTION.SUSPENDED"
    THEN handle_paypal_subscription_suspended(db, e)
    ELSE IF e.type = "PAYMENT.SALE.COMPLETED"
    THEN handle_paypal_payment_completed(db, e)
    ELSE db

\* the verification block of paypal_webhook: entered only when PAYPAL_WEBHOOK_ID
\* is set; a verify() that raises rejects the request only in 'live' mode
PayPalAccepts(c, sig, raised) ==
    IF c.secrets_set
    THEN IF raised THEN ~c.paypal_live ELSE sig
    ELSE TRUE

\* POST /webhooks/paypal.  'sig': the transmission signature verifies against
\* PAYPAL_WEBHOOK_ID; 'raised': WebhookEvent.verify raised instead of returning
paypal_webhook ==
    \E e \in PayPalEvents, sig \in BOOLEAN, raised \in BOOLEAN :
        /\ sig => Genuine(cfg, "paypal")
        /\ raised => cfg.secrets_set
        /\ WithinBounds(e)
        /\ LET accepted == PayPalAccepts(cfg, sig, raised)
           IN Record("webhook", e, sig, accepted,
                     IF accepted THEN PayPalDispatch(DB, e) ELSE DB)

CoinbaseDispatch(db, e) ==
    IF e.type = "charge:confirmed" THEN handle_coinbase_charge_confirmed(db, e)
    ELSE IF e.type = "charge:failed" THEN handle_coinbase_charge_failed(db, e)
    ELSE IF e.type = "charge:pending" THEN handle_coinbase_charge_pending(db, e)
    ELSE db

\* POST /webhooks/coinbase
coinbase_webhook ==
    \E e \in CoinbaseEvents, sig \in BOOLEAN :
        /\ sig => Genuine(cfg, "coinbase")
        /\ LET accepted == cfg.secrets_set /\ sig
           IN Record("webhook", e, sig, accepted,
                     IF accepted THEN CoinbaseDispatch(DB, e) ELSE DB)

\* tilopay_handler.handle_tilopay_webhook: the signature is verified only when
\* TILOPAY_WEBHOOK_SECRET is set
TiloPayAccepts(c, sig) == IF c.secrets_set THEN sig ELSE TRUE

TiloPayDispatch(db, e) ==
    IF e.type = "completed" THEN process_payment_success(db, e) ELSE db

\* POST /webhooks/tilopay
tilopay_webhook ==
    \E e \in TiloPayEvents, sig \in BOOLEAN :
        /\ sig => Genuine(cfg, "tilopay")
        /\ LET accepted == TiloPayAccepts(cfg, sig)
           IN Record("webhook", e, sig, accepted,
                     IF accepted THEN TiloPayDispatch(DB, e) ELSE DB)

\* the checkout session of a tier (one session per tier)
SessionId(tier) == IF tier \in Recurring THEN 1 ELSE 2

\* POST /payments/checkout with provider stripe: the Stripe customer is created
\* and stored on the first call
create_stripe_checkout_session ==
    /\ cfg.provider = "stripe"
    /\ Record("route", Ev("app", "create_stripe_checkout_session", 0, "", ""), TRUE, TRUE,
              [DB EXCEPT !.user.stripe_customer = TRUE])

\* GET /payments/success for a paid checkout session of the user.  The Payment
\* row carries the session's payment_intent, or the session id when it has none.
success ==
    \E tier \in PaidTiers :
        /\ user.stripe_customer
        /\ LET u1 == [user EXCEPT !.tier = tier, !.status = "active",
                                  !.end = EndDateFor(tier, user.end),
                                  !.stripe_sub = IF tier \in Recurring THEN TRUE ELSE @,
                                  !.payment_failures = 0]
               s1 == Append(subscriptions,
                            [provider |-> "stripe", tier |-> tier, status |-> "active"])
           IN Record("route", Ev("app", "success", 0, tier, ""), TRUE, TRUE,
                     CommitWithPayment(DB, [DB EXCEPT !.user = u1, !.subscriptions = s1],
                                       <<"cs", SessionId(tier)>>, "completed"))

\* GET /payments/paypal-success for an approved PayPal subscription of the user.
\* The Payment row carries the subscription id.
paypal_success ==
    \E tier \in Recurring :
        /\ cfg.provider = "paypal"
        /\ LET u1 == [user EXCEPT !.tier = tier, !.status = "active", !.paypal_sub = TRUE,
                                  !.end = EndDateFor(tier, user.end),
                                  !.payment_failures = 0]
               s1 == Append(subscriptions,
                            [provider |-> "paypal", tier |-> tier, status |-> "active"])
           IN Record("route", Ev("app", "paypal_success", 0, tier, ""), TRUE, TRUE,
                     CommitWithPayment(DB, [DB EXCEPT !.user = u1, !.subscriptions = s1],
                                       <<"ppsub", 1>>, "completed"))

\* POST /profile/subscription/cancel.  'ok': the provider accepted the
\* cancellation (Stripe: cancel_at_period_end=True; PayPal: subscription.cancel)
cancel_subscription ==
    \E ok \in BOOLEAN :
        LET rejected == \/ user.tier = "free"
                        \/ user.tier = "lifetime"
                        \/ user.status = "cancelled"
            provider == IF user.stripe_sub THEN "stripe"
                        ELSE IF user.paypal_sub THEN "paypal" ELSE "none"
            cancelled == ~rejected /\ provider # "none" /\ ok
        IN Record("route", Ev("app", "cancel_subscription", 0, "", provider), TRUE,
                  cancelled,
                  IF cancelled THEN [DB EXCEPT !.user.status = "cancelled"] ELSE DB)

\* utcnow() passes subscription_end_date
PeriodEnds ==
    /\ user.end = "future"
    /\ Record("time", Ev("", "period_end", 0, "", ""), FALSE, FALSE,
              [DB EXCEPT !.user.end = "past"])

InitPay ==
    /\ HabitInit
    /\ tz = 0
    /\ PayInit
    /\ cfg \in Configs
    /\ BadgeInit
    /\ ExtraInit
    /\ badgeActive = BadgeIds

NextPay ==
    \/ stripe_webhook
    \/ paypal_webhook
    \/ coinbase_webhook
    \/ tilopay_webhook
    \/ create_stripe_checkout_session
    \/ success
    \/ paypal_success
    \/ cancel_subscription
    \/ PeriodEnds

SpecPay == InitPay /\ [][NextPay]_vars

\* ---- badges: the check route ----

\* GET /badges/check: check_and_award_badges(current_user).  A requirement
\* that raises ends the request before the commit: the rows added to the
\* session so far are discarded with it.
check_and_award_badges ==
    LET available == {b \in Badges : b.id \in badgeActive /\ earned[b.id] = 0}
        raised == \E b \in available : check_badge_requirement(b, habit, logs) = "raise"
        newly_awarded == IF raised THEN {}
                         ELSE {b.id : b \in {a \in available :
                                  check_badge_requirement(a, habit, logs) = "true"}}
    IN /\ earned' = [i \in BadgeIds |-> IF i \in newly_awarded THEN earned[i] + 1
                                        ELSE earned[i]]
       /\ lastCheck' = [called |-> TRUE, raised |-> raised,
                        again |-> lastCheck.called /\ lastCheck.snap = <<habit, logs>>,
                        avail |-> {b.id : b \in available},
                        met |-> {b.id : b \in {a \in available :
                                    RequirementMet(a, habit, logs)}},
                        awarded |-> newly_awarded,
                        snap |-> <<habit, logs>>]
       /\ UNCHANGED <<habitVars, payVars, badgeActive, limitVars, ownerVars, purgeVars, laterVars>>

InitBadge ==
    /\ HabitInit
    /\ tz = 0
    /\ PayInit
    /\ cfg = FullConfig
    /\ BadgeInit
    /\ ExtraInit
    /\ badgeActive \in SUBSET BadgeIds

NextBadge == Tick \/ complete_habit \/ undo_completion \/ check_and_award_badges

SpecBadge == InitBadge /\ [][NextBadge]_vars

\* ---- the habit table of a user on the free tier ----

ActiveHabits(rows) == {i \in HabitIds : rows[i] = "active"}

\* User.can_add_more_habits
can_add_more_habits(u, rows) ==
    \/ is_premium_active(u)
    \/ Cardinality(ActiveHabits(rows)) < u.habit_limit

\* POST /habits/add: the form is validated and the Habit row is inserted
add_habit ==
    /\ \E i \in HabitIds :
          /\ habitRows[i] = "none"
          /\ habitRows' = [habitRows EXCEPT ![i] = "active"]
    /\ UNCHANGED <<habitVars, payVars, badgeVars, ownerVars, purgeVars, laterVars>>

\* POST /challenges/<id>/link-habit with habit_id = 0 by a participant: the
\* new habit is created unless can_add_more_habits() is false
link_habit ==
    /\ \E i \in HabitIds :
          /\ habitRows[i] = "none"
          /\ habitRows' = IF can_add_more_habits(user, habitRows)
                          THEN [habitRows EXCEPT ![i] = "active"]
                          ELSE habitRows
    /\ UNCHANGED <<habitVars, payVars, badgeVars, ownerVars, purgeVars, laterVars>>

\* POST /habits/<id>/archive by the owner
archive_habit(i) ==
    /\ habitRows[i] # "none"
    /\ habitRows' = [habitRows EXCEPT ![i] = "archived"]
    /\ UNCHANGED <<habitVars, payVars, badgeVars, ownerVars, purgeVars, laterVars>>

\* POST /habits/<id>/unarchive by the owner
unarchive_habit(i) ==
    /\ habitRows[i] # "none"
    /\ habitRows' = [habitRows EXCEPT ![i] = "active"]
    /\ UNCHANGED <<habitVars, payVars, badgeVars, ownerVars, purgeVars, laterVars>>

\* POST /habits/<id>/delete by the owner
delete_habit(i) ==
    /\ habitRows[i] # "none"
    /\ habitRows' = [habitRows EXCEPT ![i] = "none"]
    /\ UNCHANGED <<habitVars, payVars, badgeVars, ownerVars, purgeVars, laterVars>>

\* one habit, one user on the free tier, the default deployment
InitOne ==
    /\ HabitInit
    /\ tz = 0
    /\ PayInit
    /\ cfg = FullConfig
    /\ BadgeInit
    /\ badgeActive = BadgeIds
    /\ ExtraInit

NextLimit ==
    \/ add_habit
    \/ link_habit
    \/ \E i \in HabitIds : archive_habit(i)
    \/ \E i \in HabitIds : unarchive_habit(i)
    \/ \E i \in HabitIds : delete_habit(i)

SpecLimit == InitOne /\ [][NextLimit]_vars

\* ---- requests on the habit by its owner and by another user ----

\* a check that lets every logged-in user pass
Owns_Anyone(u) == TRUE

\* habit.user_id == current_user.id
Owns(u) == u = Owner

\* POST /habits/<id>/complete by user u
complete_habit_by(u) ==
    /\ meta.exists
    /\ lastReq' = [user |-> u, route |-> "complete"]
    /\ IF Owns(u) THEN CompleteStep ELSE UNCHANGED habitVars
    /\ UNCHANGED <<meta, payVars, badgeVars, limitVars, purgeVars, laterVars>>

\* POST /habits/<id>/undo by user u
undo_completion_by(u) ==
    /\ meta.exists
    /\ lastReq' = [user |-> u, route |-> "undo"]
    /\ IF Owns(u) THEN UndoStep ELSE UNCHANGED habitVars
    /\ UNCHANGED <<meta, payVars, badgeVars, limitVars, purgeVars, laterVars>>

\* POST /habits/<id>/edit by user u with a valid form
edit_habit_by(u) ==
    /\ meta.exists
    /\ lastReq' = [user |-> u, route |-> "edit"]
    /\ \E n \in Names : meta' = IF Owns(u) THEN [meta EXCEPT !.name = n] ELSE meta
    /\ UNCHANGED <<habitVars, payVars, badgeVars, limitVars, purgeVars, laterVars>>

\* POST /habits/<id>/delete by user u: the row goes, and its completions with
\* it (cascade='all, delete-orphan')
delete_habit_by(u) ==
    /\ meta.exists
    /\ lastReq' = [user |-> u, route |-> "delete"]
    /\ IF Owns(u)
       THEN /\ meta' = [meta EXCEPT !.exists = FALSE]
            /\ logs' = [d \in Dates |-> 0]
       ELSE UNCHANGED <<meta, logs>>
    /\ UNCHANGED <<clock, tz, habit, req, overlap, maxStreak, done, lastOp, prevOp>>
    /\ UNCHANGED <<payVars, badgeVars, limitVars, purgeVars, laterVars>>

\* POST /habits/<id>/archive by user u
archive_habit_by(u) ==
    /\ meta.exists
    /\ lastReq' = [user |-> u, route |-> "archive"]
    /\ meta' = IF Owns(u) THEN [meta EXCEPT !.archived = TRUE] ELSE meta
    /\ UNCHANGED <<habitVars, payVars, badgeVars, limitVars, purgeVars, laterVars>>

\* POST /habits/<id>/unarchive by user u
unarchive_habit_by(u) ==
    /\ meta.exists
    /\ lastReq' = [user |-> u, route |-> "unarchive"]
    /\ meta' = IF Owns(u) THEN [meta EXCEPT !.archived = FALSE] ELSE meta
    /\ UNCHANGED <<habitVars, payVars, badgeVars, limitVars, purgeVars, laterVars>>

NextOwner ==
    \/ Tick
    \/ \E u \in Users : complete_habit_by(u)
    \/ \E u \in Users : undo_completion_by(u)
    \/ \E u \in Users : edit_habit_by(u)
    \/ \E u \in Users : delete_habit_by(u)
    \/ \E u \in Users : archive_habit_by(u)
    \/ \E u \in Users : unarchive_habit_by(u)

SpecOwner == InitOne /\ [][NextOwner]_vars

\* ---- soft deletion of accounts and the purge job ----

Purged == [exists |-> FALSE, account_deleted |-> FALSE,
           deletion_scheduled_date |-> NULL, habits |-> 0, logs |-> 0,
           participations |-> 0]

\* a filter on the flag alone
PurgeFilter_NoGrace(a, t) == a.account_deleted

\* the query of delete_expired_accounts: account_deleted and
\* deletion_scheduled_date <= utcnow() - 30 days (never true of a NULL date)
PurgeFilter(a, t) ==
    /\ a.account_deleted
    /\ a.deletion_scheduled_date # NULL
    /\ a.deletion_scheduled_date <= t - GraceDays

DayPasses ==
    /\ now < MaxNow
    /\ now' = now + 1
    /\ lastAct' = "day"
    /\ lastPurge' = {}
    /\ UNCHANGED <<accounts, habitVars, payVars, badgeVars, limitVars, ownerVars, laterVars>>

\* POST /profile/delete with the password and the confirmation
delete_account(u) ==
    /\ accounts[u].exists
    /\ accounts' = [accounts EXCEPT ![u].account_deleted = TRUE,
                                    ![u].deletion_scheduled_date = now]
    /\ lastAct' = "delete_account"
    /\ lastPurge' = {}
    /\ UNCHANGED <<now, habitVars, payVars, badgeVars, limitVars, ownerVars, laterVars>>

\* POST /challenges/create or /challenges/invite/<token>/accept by user u: a
\* ChallengeParticipant row of the user is inserted
join_challenge(u) ==
    /\ accounts[u].exists
    /\ accounts[u].participations = 0
    /\ accounts' = [accounts EXCEPT ![u].participations = 1]
    /\ lastAct' = "join"
    /\ lastPurge' = {}
    /\ UNCHANGED <<now, habitVars, payVars, badgeVars, limitVars, ownerVars, laterVars>>

\* db.session.delete(user) with rows left that reference the user and are not
\* deleted by the job or by a cascade: ChallengeParticipant.user_id is NOT NULL
\* and User.challenge_participations has no delete cascade, so the flush raises
DeleteRaises(a) == a.participations > 0

\* a run of cleanup.py.  Each selected user is deleted with its habits and
\* completion logs in a transaction of its own; 'F' are the users whose
\* deletion fails for an outside cause; a deletion that raises is rolled back.
delete_expired_accounts ==
    LET users_to_delete == {u \in Users : accounts[u].exists /\ PurgeFilter(accounts[u], now)}
    IN /\ \E F \in SUBSET users_to_delete :
             /\ accounts' = [u \in Users |->
                                IF /\ u \in users_to_delete
                                   /\ u \notin F
                                   /\ ~DeleteRaises(accounts[u])
                                THEN Purged ELSE accounts[u]]
             /\ lastPurge' = F
       /\ lastAct' = "purge"
       /\ UNCHANGED <<now, habitVars, payVars, badgeVars, limitVars, ownerVars, laterVars>>

NextPurge ==
    \/ DayPasses
    \/ \E u \in Users : delete_account(u)
    \/ \E u \in Users : join_challenge(u)
    \/ delete_expired_accounts

SpecPurge == InitOne /\ [][NextPurge]_vars

\* ---- the subscription-expiry sweep ----

\* GET /payments/success for a paid checkout session of user u (the webhook
\* handler and the PayPal and TiloPay paths write the same fields)
subscribe(u) ==
    \E tier \in AllTiers \ {"free"} :
        /\ members' = [members EXCEPT ![u] =
                          [@ EXCEPT !.tier = tier, !.status = "active",
                                    !.end = IF tier = "lifetime" THEN "none" ELSE "future"]]
        /\ lastSweep' = NoSweep
        /\ UNCHANGED <<firstVars, nonSweepVars>>

\* POST /profile/subscription/cancel by user u, accepted by the provider
cancel_by(u) ==
    /\ members[u].tier \in {"monthly", "annual"}
    /\ members[u].status # "cancelled"
    /\ members' = [members EXCEPT ![u].status = "cancelled"]
    /\ lastSweep' = NoSweep
    /\ UNCHANGED <<firstVars, nonSweepVars>>

\* utcnow() passes subscription_end_date of user u
EndDatePasses(u) ==
    /\ members[u].end = "future"
    /\ members' = [members EXCEPT ![u].end = "past"]
    /\ lastSweep' = NoSweep
    /\ UNCHANGED <<firstVars, nonSweepVars>>

\* the query of check_expired_subscriptions:
\* subscription_status in ('monthly', 'annual') and subscription_end_date <= utcnow()
SweepFilter(m) == m.status \in {"monthly", "annual"} /\ m.end = "past"

\* stripe_handler.downgrade_user_to_free
downgrade_user_to_free(m) ==
    [m EXCEPT !.status = "free", !.end = "none", !.habit_limit = FreeHabitLimit]

\* a run of check_expired_subscriptions.py
check_expired_subscriptions ==
    LET expired_users == {u \in Users : SweepFilter(members[u])}
    IN /\ members' = [u \in Users |->
                         IF u \in expired_users
                         THEN downgrade_user_to_free(members[u]) ELSE members[u]]
       /\ lastSweep' = [ran |-> TRUE, pre |-> members,
                        count |-> Cardinality(expired_users)]
       /\ UNCHANGED <<firstVars, nonSweepVars>>

NextSweep ==
    \/ \E u \in Users : subscribe(u)
    \/ \E u \in Users : cancel_by(u)
    \/ \E u \in Users : EndDatePasses(u)
    \/ check_expired_subscriptions

SpecSweep == InitOne /\ [][NextSweep]_vars

\* ---- a challenge: invites, joining and leaving ----

ActiveParticipants(p) == {u \in ChallengeUsers : p[u] = "active"}

\* the row a new ChallengeInvite gets: ids are handed out in order
NextInvite == IF \E i \in InviteIds : ~invites[i].exists
              THEN CHOOSE i \in InviteIds :
                      ~invites[i].exists /\ \A j \in InviteIds : j < i => invites[j].exists
              ELSE 0

\* the unexpired pending shareable link of the challenge, 0 when there is none
ExistingLink ==
    LET L == {i \in InviteIds : /\ invites[i].exists /\ invites[i].shareable
                                /\ invites[i].status = "pending" /\ ~invites[i].expired}
    IN IF L = {} THEN 0 ELSE CHOOSE i \in L : \A j \in L : i <= j

RecordJoin(u, i, result) ==
    lastJoin' = [route |-> "accept", user |-> u, result |-> result, was |-> part[u],
                 inv |-> invites[i], count |-> Cardinality(ActiveParticipants(part))]

\* POST /challenges/create by a premium user with max_participants set: the
\* creator is the first participant
create ==
    /\ cap = 0
    /\ \E c \in 1..MaxCap : cap' = c
    /\ part' = [part EXCEPT ![Creator] = "active"]
    /\ lastJoin' = NoJoin
    /\ UNCHANGED <<invites, firstVars, nonChalVars>>

\* POST /challenges/<id>/invite by participant u: an email invite
invite(u) ==
    /\ part[u] = "active"
    /\ NextInvite # 0
    /\ invites' = [invites EXCEPT ![NextInvite] =
                      [exists |-> TRUE, shareable |-> FALSE, status |-> "pending",
                       expired |-> FALSE]]
    /\ lastJoin' = NoJoin
    /\ UNCHANGED <<part, cap, firstVars, nonChalVars>>

\* GET /challenges/<id>/shareable-link by participant u
shareable_link(u) ==
    /\ part[u] = "active"
    /\ IF ExistingLink # 0
       THEN UNCHANGED invites
       ELSE /\ NextInvite # 0
            /\ invites' = [invites EXCEPT ![NextInvite] =
                              [exists |-> TRUE, shareable |-> TRUE, status |-> "pending",
                               expired |-> FALSE]]
    /\ lastJoin' = NoJoin
    /\ UNCHANGED <<part, cap, firstVars, nonChalVars>>

\* utcnow() passes expires_at of the pending invite i (an invite that was
\* accepted adds nobody, expired or not)
InviteExpires(i) ==
    /\ invites[i].exists
    /\ invites[i].status = "pending"
    /\ ~invites[i].expired
    /\ invites' = [invites EXCEPT ![i].expired = TRUE]
    /\ lastJoin' = NoJoin
    /\ UNCHANGED <<part, cap, firstVars, nonChalVars>>

\* a check of the limit that never refuses
AtCapacity_Never(count, max_participants) == FALSE

\* current_participant_count >= challenge.max_participants
AtCapacity(count, max_participants) == count >= max_participants

\* GET /challenges/invite/<token> by the logged-in user u
accept_invite(i, u) ==
    /\ invites[i].exists
    /\ IF invites[i].expired
       THEN /\ invites' = [invites EXCEPT ![i].status = "expired"]
            /\ RecordJoin(u, i, "expired")
            /\ UNCHANGED part
       ELSE IF invites[i].status = "accepted"
       THEN /\ RecordJoin(u, i, "used")
            /\ UNCHANGED <<part, invites>>
       ELSE IF part[u] = "active"
       THEN /\ RecordJoin(u, i, "member")
            /\ UNCHANGED <<part, invites>>
       ELSE IF AtCapacity(Cardinality(ActiveParticipants(part)), cap)
       THEN /\ RecordJoin(u, i, "full")
            /\ UNCHANGED <<part, invites>>
       ELSE /\ part' = [part EXCEPT ![u] = "active"]
            /\ invites' = [invites EXCEPT ![i].status = "accepted"]
            /\ RecordJoin(u, i, "joined")
    /\ UNCHANGED <<cap, firstVars, nonChalVars>>

\* POST /challenges/<id>/leave by user u
leave(u) ==
    /\ part[u] = "active"
    /\ u # Creator
    /\ part' = [part EXCEPT ![u] = "left"]
    /\ lastJoin' = NoJoin
    /\ UNCHANGED <<cap, invites, firstVars, nonChalVars>>

NextChallenge ==
    \/ create
    \/ \E u \in ChallengeUsers : invite(u)
    \/ \E i \in InviteIds : InviteExpires(i)
    \/ \E i \in InviteIds, u \in ChallengeUsers : accept_invite(i, u)
    \/ \E u \in ChallengeUsers : leave(u)

SpecChallenge == InitOne /\ [][NextChallenge]_vars

\* the challenge with shareable links
NextShare ==
    \/ NextChallenge
    \/ \E u \in ChallengeUsers : shareable_link(u)

SpecShare == InitOne /\ [][NextShare]_vars

\* ---- habits linked to a challenge: requests of the participant ----

RECURSIVE SumOver(_, _)
SumOver(S, f) ==
    IF S = {} THEN 0
    ELSE LET x == CHOOSE x \in S : TRUE IN f[x] + SumOver(S \ {x}, f)

RECURSIVE LatestOver(_, _)
LatestOver(S, f) ==
    IF S = {} THEN NULL
    ELSE LET x == CHOOSE x \in S : TRUE IN Max(f[x], LatestOver(S \ {x}, f))

ActiveLinks(L) == {h \in LinkHabits : L[h].rows > 0 /\ L[h].active}

LinkState(l) == IF l.rows = 0 THEN "none" ELSE IF l.active THEN "active" ELSE "inactive"

\* ChallengeParticipant.update_progress: the statistics it stores
ParticipantProgress(L, H) ==
    LET active_links == ActiveLinks(L)
    IN IF active_links = {}
       THEN ZeroProgress
       ELSE [current_streak |-> SumOver(active_links, [h \in LinkHabits |-> H[h].habit.streak_count]),
             longest_streak |-> SumOver(active_links, [h \in LinkHabits |-> H[h].habit.longest_streak]),
             total_completions |-> SumOver(active_links, [h \in LinkHabits |-> H[h].completions]),
             last_activity |-> LatestOver(active_links,
                                          [h \in LinkHabits |-> H[h].habit.last_completed])]

\* POST /habits/<id>/complete of habit h on a later day
complete_linked(h) ==
    /\ \E today \in LinkDates :
          /\ today > hstats[h].habit.last_completed
          /\ hstats' = [hstats EXCEPT ![h] =
                           [habit |-> Habit_complete(@.habit, today).h,
                            completions |-> @.completions + 1]]
    /\ lastLink' = NoLinkReq
    /\ UNCHANGED <<pstatus, links, progress, firstVars, nonLinkVars>>

\* POST /challenges/<id>/link-habit with the existing habit h, which the form
\* offers unless it has an active link.  unique_habit_challenge allows one row
\* per (habit, challenge): the flush of a second row raises and the request
\* ends without a commit.
link_habit_to(h) ==
    /\ pstatus = "active"
    /\ LinkState(links[h]) # "active"
    /\ IF links[h].rows > 0
       THEN /\ lastLink' = [route |-> "link", habit |-> h, ok |-> FALSE,
                            was |-> LinkState(links[h])]
            /\ UNCHANGED <<links, progress>>
       ELSE /\ links' = [links EXCEPT ![h] = [rows |-> 1, active |-> TRUE]]
            /\ progress' = ParticipantProgress(links', hstats)
            /\ lastLink' = [route |-> "link", habit |-> h, ok |-> TRUE,
                            was |-> LinkState(links[h])]
    /\ UNCHANGED <<pstatus, hstats, firstVars, nonLinkVars>>

\* POST /challenges/<id>/unlink-habit/<habit_id>
unlink_habit(h) ==
    /\ pstatus = "active"
    /\ LinkState(links[h]) = "active"
    /\ links' = [links EXCEPT ![h].active = FALSE]
    /\ progress' = ParticipantProgress(links', hstats)
    /\ lastLink' = [route |-> "unlink", habit |-> h, ok |-> TRUE, was |-> "active"]
    /\ UNCHANGED <<pstatus, hstats, firstVars, nonLinkVars>>

\* POST /challenges/<id>/leave by the participant (not the creator)
leave_challenge ==
    /\ pstatus = "active"
    /\ pstatus' = "left"
    /\ links' = [h \in LinkHabits |-> [links[h] EXCEPT !.active = FALSE]]
    /\ lastLink' = [route |-> "leave", habit |-> 0, ok |-> TRUE, was |-> "none"]
    /\ UNCHANGED <<hstats, progress, firstVars, nonLinkVars>>

\* accept_invite by the participant who left: the row is reactivated
rejoin ==
    /\ pstatus = "left"
    /\ pstatus' = "active"
    /\ lastLink' = [route |-> "rejoin", habit |-> 0, ok |-> TRUE, was |-> "none"]
    /\ UNCHANGED <<links, hstats, progress, firstVars, nonLinkVars>>

\* POST /challenges/update-progress with habit_id = h
update_progress(h) ==
    /\ progress' = IF LinkState(links[h]) = "active"
                   THEN ParticipantProgress(links, hstats) ELSE progress
    /\ lastLink' = [route |-> "update_progress", habit |-> h,
                    ok |-> LinkState(links[h]) = "active", was |-> LinkState(links[h])]
    /\ UNCHANGED <<pstatus, links, hstats, firstVars, nonLinkVars>>

NextLink ==
    \/ \E h \in LinkHabits : complete_linked(h)
    \/ \E h \in LinkHabits : link_habit_to(h)
    \/ \E h \in LinkHabits : unlink_habit(h)
    \/ leave_challenge
    \/ rejoin
    \/ \E h \in LinkHabits : update_progress(h)

SpecLink == InitOne /\ [][NextLink]_vars

\* ---- manual payment requests: the routes of manual_payment_bp ----

\* admin_required: current_user.is_admin
is_admin(u) == u = 2

PendingOf(R, u) == {r \in DOMAIN R : R[r].user = u /\ R[r].status = "pending"}

\* POST /payment/request/<tier> with a complete form
create_request(u, tier) ==
    /\ tier \in PRICING
    /\ PendingOf(requests, u) = {}
    /\ Len(requests) < MaxRequests
    /\ requests' = Append(requests, PaymentRequest(u, tier))
    /\ lastApprove' = NoApprove
    /\ UNCHANGED <<subscribers, firstVars, nonManVars>>

\* POST /payment/cancel-request/<request_id>: first_or_404 on id, user and status
cancel_request(r, u) ==
    /\ r \in DOMAIN requests
    /\ requests[r].user = u
    /\ requests[r].status = "pending"
    /\ requests' = [requests EXCEPT ![r].status = "cancelled"]
    /\ lastApprove' = NoApprove
    /\ UNCHANGED <<subscribers, firstVars, nonManVars>>

\* the subscription columns approve_request writes
Activated(tier) ==
    [tier |-> tier, status |-> "active",
     end |-> IF tier = "monthly" THEN "30d" ELSE IF tier = "annual" THEN "365d" ELSE "none",
     habit_limit |-> ManualHabitLimit]

AlreadyProcessed_Never(request) == FALSE

\* approve_request and reject_request: payment_request.status != 'pending'
AlreadyProcessed(request) == request.status # "pending"

\* POST /payment/admin/approve/<request_id>; db_error: an exception inside the
\* try block, after which the session is rolled back
approve_request(r, admin, db_error) ==
    /\ is_admin(admin)
    /\ r \in DOMAIN requests
    /\ ~AlreadyProcessed(requests[r])
    /\ IF db_error
       THEN /\ lastApprove' = [req |-> r, result |-> "error"]
            /\ UNCHANGED <<requests, subscribers>>
       ELSE /\ requests' = [requests EXCEPT ![r].status = "approved"]
            /\ subscribers' = [subscribers EXCEPT ![requests[r].user] =
                                   Activated(requests[r].tier)]
            /\ lastApprove' = [req |-> r, result |-> "ok"]
    /\ UNCHANGED <<firstVars, nonManVars>>

\* POST /payment/admin/reject/<request_id> with a reason
reject_request(r, admin) ==
    /\ is_admin(admin)
    /\ r \in DOMAIN requests
    /\ ~AlreadyProcessed(requests[r])
    /\ requests' = [requests EXCEPT ![r].status = "rejected"]
    /\ lastApprove' = NoApprove
    /\ UNCHANGED <<subscribers, firstVars, nonManVars>>

NextManual ==
    \/ \E u \in ManualUsers, tier \in RequestTiers : create_request(u, tier)
    \/ \E r \in RequestIds, u \in ManualUsers : cancel_request(r, u)
    \/ \E r \in RequestIds, admin \in ManualUsers, db_error \in BOOLEAN :
          approve_request(r, admin, db_error)
    \/ \E r \in RequestIds, admin \in ManualUsers : reject_request(r, admin)

SpecManual == InitOne /\ [][NextManual]_vars

\* ---- the daily reminder: send_daily_reminders.py and the requests between its runs ----

\* User.get_user_date of the reminded user
user_date == rclock + ruser.timezone

\* date.weekday(): 0 = Monday, 6 = Sunday; date 1 is a Friday
weekday(today) == (today + 3) % 7

should_send_reminder_today(u, today) ==
    IF u.reminder_days = "all" THEN TRUE
    ELSE IF u.reminder_days = "weekdays" THEN weekday(today) < 5
    ELSE IF u.reminder_days = "weekends" THEN weekday(today) >= 5
    ELSE FALSE

\* the non-archived habits not completed on the date
incomplete_habits(H, date) ==
    {h \in RemHabits : ~H[h].archived /\ H[h].last_completed # date}

\* what send_daily_reminder does for the user; mail_ok: mail.send raised nothing
ReminderOutcome(u, H, date, mail_ok) ==
    IF ~u.email_notifications_enabled THEN "disabled"
    ELSE IF u.last_reminder_sent = date THEN "already"
    ELSE IF ~should_send_reminder_today(u, date) THEN "filtered"
    ELSE IF incomplete_habits(H, date) = {} THEN "complete"
    ELSE IF mail_ok THEN "sent" ELSE "failed"

\* midnight UTC passes
ReminderTick ==
    /\ rclock < MaxRemDay
    /\ rclock' = rclock + 1
    /\ lastRun' = NoRun
    /\ UNCHANGED <<ruser, rhabits, sent, firstVars, nonRemVars>>

\* POST /auth/settings: notification preferences and timezone
reminder_settings(enabled, days, z) ==
    /\ ruser' = [ruser EXCEPT !.email_notifications_enabled = enabled,
                              !.reminder_days = days, !.timezone = z]
    /\ ruser' # ruser
    /\ lastRun' = NoRun
    /\ UNCHANGED <<rclock, rhabits, sent, firstVars, nonRemVars>>

\* POST /habits/<id>/complete of a habit not yet completed on the user's date
complete_reminded(h) ==
    /\ ~rhabits[h].archived
    /\ rhabits[h].last_completed # user_date
    /\ rhabits' = [rhabits EXCEPT ![h].last_completed = user_date]
    /\ lastRun' = NoRun
    /\ UNCHANGED <<rclock, ruser, sent, firstVars, nonRemVars>>

\* POST /habits/<id>/archive and /unarchive
archive_reminded(h) ==
    /\ rhabits' = [rhabits EXCEPT ![h].archived = ~@]
    /\ lastRun' = NoRun
    /\ UNCHANGED <<rclock, ruser, sent, firstVars, nonRemVars>>

\* one run of send_daily_reminders.py reaching the user: send_daily_reminder(user)
send_daily_reminder(mail_ok) ==
    LET date == user_date
        outcome == ReminderOutcome(ruser, rhabits, date, mail_ok)
    IN /\ outcome = "sent" => sent[date] < MaxSent
       /\ sent' = IF outcome = "sent" THEN [sent EXCEPT ![date] = @ + 1] ELSE sent
       /\ ruser' = IF outcome = "sent"
                   THEN [ruser EXCEPT !.last_reminder_sent = date] ELSE ruser
       /\ lastRun' = [result |-> outcome, date |-> date]
       /\ UNCHANGED <<rclock, rhabits, firstVars, nonRemVars>>

NextReminder ==
    \/ ReminderTick
    \/ \E enabled \in BOOLEAN, days \in ReminderDays, z \in TzOffsets :
          reminder_settings(enabled, days, z)
    \/ \E h \in RemHabits : complete_reminded(h)
    \/ \E h \in RemHabits : archive_reminded(h)
    \/ \E mail_ok \in BOOLEAN : send_daily_reminder(mail_ok)

SpecReminder == InitOne /\ [][NextReminder]_vars

\* ---- helpers of the properties ----

\* the date of the most recent CompletionLog row, or NULL
MostRecent(l) ==
    LET have == {d \in Dates : l[d] > 0}
    IN IF have = {} THEN NULL ELSE CHOOSE d \in have : \A e \in have : e <= d

\* number of consecutive calendar days with a CompletionLog row, ending at day d
RECURSIVE ConsecutiveRun(_, _)
ConsecutiveRun(l, d) ==
    IF d \notin Dates THEN 0
    ELSE IF l[d] = 0 THEN 0
    ELSE 1 + ConsecutiveRun(l, d - 1)

CompleteDone == lastOp.op = "complete" /\ lastOp.ret
UndoDone == lastOp.op = "undo" /\ lastOp.ret

\* ---- C1 ----
\* C1: Habit.complete(today) called when last_completed # today returns True,
\* sets last_completed = today, and sets streak_count to the previous
\* streak_count + 1 when last_completed was today - 1 and to 1 otherwise.
C1_CompleteSetsStreak ==
    (lastOp.op = "complete" /\ lastOp.pre.last_completed # lastOp.today) =>
        /\ lastOp.ret = TRUE
        /\ habit.last_completed = lastOp.today
        /\ habit.streak_count =
              IF lastOp.pre.last_completed = lastOp.today - 1
              THEN lastOp.pre.streak_count + 1
              ELSE 1

\* a streak of at least 2 was continued, and the request before it restarted a
\* streak after a gap of two or more days
C1_Witness ==
    /\ CompleteDone
    /\ lastOp.pre.last_completed = lastOp.today - 1
    /\ lastOp.pre.streak_count >= 1
    /\ habit.streak_count = lastOp.pre.streak_count + 1
    /\ prevOp.op = "complete" /\ prevOp.ret
    /\ prevOp.pre.last_completed # NULL
    /\ prevOp.pre.last_completed < prevOp.today - 1
    /\ prevOp.pre.streak_count >= 2

\* ---- C2 ----
\* C2: a second complete with the same date returns False, leaves
\* streak_count, longest_streak and last_completed as the first call left
\* them, and the route inserts no CompletionLog row.
C2_SecondCompleteNoOp ==
    (/\ prevOp.op = "complete"
     /\ lastOp.op = "complete"
     /\ lastOp.today = prevOp.today) =>
        /\ lastOp.ret = FALSE
        /\ habit = lastOp.pre
        /\ logs = lastOp.preLogs

C2_Witness ==
    /\ prevOp.op = "complete" /\ prevOp.ret
    /\ lastOp.op = "complete" /\ ~lastOp.ret
    /\ lastOp.today = prevOp.today
    /\ habit.streak_count >= 2
    /\ logs[lastOp.today] = 1

\* ---- C3 ----
\* C3: from a habit created with streak_count = 0 and longest_streak = 0,
\* longest_streak never decreases from one state to the next and always
\* equals the largest value streak_count has had so far.
C3_LongestIsMaxEver ==
    /\ [](habit.longest_streak = maxStreak)
    /\ [][habit'.longest_streak >= habit.longest_streak]_vars

\* an undo lowered the streak below a longest streak of at least 2
C3_Witness ==
    /\ UndoDone
    /\ lastOp.pre.streak_count >= 2
    /\ habit.streak_count < lastOp.pre.streak_count
    /\ habit.longest_streak = lastOp.pre.longest_streak
    /\ habit.longest_streak >= 2

\* ---- C4 ----
\* C4: in every reachable state longest_streak >= streak_count >= 0.
C4_LongestGeStreak ==
    /\ habit.longest_streak >= habit.streak_count
    /\ habit.streak_count >= 0

\* a new record was just set by a completion
C4_Witness ==
    /\ CompleteDone
    /\ habit.streak_count >= 2
    /\ habit.streak_count = habit.longest_streak
    /\ lastOp.pre.longest_streak < habit.longest_streak

\* ---- C5 ----
\* C5 as stated: undo with last_completed = today deletes today's row; then,
\* if the most recent remaining log is dated today - 1, streak_count becomes
\* max(0, streak_count - 1) and last_completed that date; otherwise
\* streak_count becomes 0 and last_completed becomes null.
C5_Original ==
    UndoDone =>
        /\ logs = DeleteFirstLog(lastOp.preLogs, lastOp.today)
        /\ IF MostRecent(logs) = lastOp.today - 1
           THEN /\ habit.streak_count = Max(0, lastOp.pre.streak_count - 1)
                /\ habit.last_completed = MostRecent(logs)
           ELSE /\ habit.streak_count = 0
                /\ habit.last_completed = NULL

\* C5 amended: undo with last_completed = today deletes one row dated today
\* (if there is one); then, with p the most recent log dated before today:
\* p = today - 1 gives streak_count = max(0, streak_count - 1) and
\* last_completed = p; an older p gives streak_count = 0 and
\* last_completed = p; no such log gives streak_count = 0 and last_completed
\* null.
C5_UndoRecalculates ==
    UndoDone =>
        LET before == {d \in Dates : d < lastOp.today /\ lastOp.preLogs[d] > 0}
        IN /\ \A d \in Dates :
                 logs[d] = IF d = lastOp.today /\ lastOp.preLogs[d] > 0
                           THEN lastOp.preLogs[d] - 1
                           ELSE lastOp.preLogs[d]
           /\ before = {} =>
                 /\ habit.streak_count = 0
                 /\ habit.last_completed = NULL
           /\ \A p \in before :
                 (\A e \in before : e <= p) =>
                    /\ habit.last_completed = p
                    /\ habit.streak_count =
                          IF p = lastOp.today - 1
                          THEN Max(0, lastOp.pre.streak_count - 1)
                          ELSE 0

\* an undo whose most recent earlier log is older than yesterday
C5_Witness ==
    /\ UndoDone
    /\ lastOp.preLogs[lastOp.today] = 1
    /\ logs[lastOp.today] = 0
    /\ habit.last_completed # NULL
    /\ habit.last_completed < lastOp.today - 1
    /\ habit.streak_count = 0

\* ---- C6 ----
\* C6: an undo request for a habit whose last_completed is not today changes
\* nothing: no CompletionLog row is deleted and streak_count, longest_streak
\* and last_completed keep their values.
C6_UndoRejected ==
    (lastOp.op = "undo" /\ lastOp.pre.last_completed # lastOp.today) =>
        /\ lastOp.ret = FALSE
        /\ habit = lastOp.pre
        /\ logs = lastOp.preLogs

\* a rejected undo on a day that has a log row and a running streak
C6_Witness ==
    /\ lastOp.op = "undo" /\ ~lastOp.ret
    /\ lastOp.pre.last_completed # NULL
    /\ lastOp.pre.last_completed # lastOp.today
    /\ logs[lastOp.today] > 0
    /\ habit.streak_count >= 1

\* ---- C7 ----
CompleteThenUndo ==
    /\ prevOp.op = "complete" /\ prevOp.ret
    /\ lastOp.op = "undo" /\ lastOp.today = prevOp.today
    /\ prevOp.pre.last_completed = MostRecent(prevOp.preLogs)

RoundTripRestores ==
    /\ habit.last_completed = prevOp.pre.last_completed
    /\ logs = prevOp.preLogs
    /\ habit.longest_streak = lastOp.pre.longest_streak
    /\ (prevOp.pre.last_completed = prevOp.today - 1 =>
           habit.streak_count = prevOp.pre.streak_count)

\* C7 as stated: for a habit whose last_completed is the date of its most
\* recent log (or both absent), complete(today) then undo(today) restores
\* last_completed, removes exactly the inserted row, keeps the longest_streak
\* the complete set, and restores streak_count when the completion continued
\* a streak.
C7_Original == CompleteThenUndo => RoundTripRestores

\* C7 amended: the same, for a habit whose last_completed is absent or
\* earlier than today.
C7_CompleteUndoRoundTrip ==
    (CompleteThenUndo /\ prevOp.pre.last_completed < prevOp.today) => RoundTripRestores

\* a streak of 2 continued to 3 (a new record) and undone, with older logs present
C7_Witness ==
    /\ CompleteThenUndo
    /\ prevOp.pre.last_completed = prevOp.today - 1
    /\ prevOp.pre.streak_count >= 2
    /\ lastOp.pre.longest_streak > prevOp.pre.longest_streak
    /\ habit.streak_count = prevOp.pre.streak_count
    /\ logs = prevOp.preLogs

\* ---- C8 ----
\* C8: with requests one at a time and a non-decreasing today there is at
\* most one CompletionLog row per date, and a row for date d exists only if
\* a complete with today = d succeeded and was not undone.
C8_OneRowPerDate ==
    \A d \in Dates :
        /\ logs[d] <= 1
        /\ (logs[d] > 0 => d \in done)

\* a completion was undone and redone on the same day, after earlier completions
C8_Witness ==
    /\ CompleteDone
    /\ prevOp.op = "undo" /\ prevOp.ret
    /\ prevOp.today = lastOp.today
    /\ logs[lastOp.today] = 1
    /\ Cardinality({d \in Dates : logs[d] > 0}) >= 2

\* ---- C9 ----
\* C9: with requests one at a time and a non-decreasing today, streak_count
\* equals the number of consecutive calendar days with a CompletionLog row
\* ending at last_completed, and is 0 exactly when there is no log ending at
\* last_completed.
C9_StreakMatchesLog ==
    habit.streak_count = ConsecutiveRun(logs, habit.last_completed)

\* ---- C10 ----
\* two complete requests for the same day that both loaded the same habit row
\* before either committed, and both committed
RaceFinished ==
    /\ overlap
    /\ \A w \in Workers : req[w].pc = "done" /\ req[w].ret
    /\ req[1].today = req[2].today
    /\ req[1].snap = req[2].snap

\* C10 as stated: two complete requests for the same habit and day that both
\* load before either commits leave streak_count two higher than before (the
\* streak, continued from yesterday, is incremented twice).
C10_Original ==
    (RaceFinished /\ req[1].snap.last_completed = req[1].today - 1) =>
        habit.streak_count = req[1].snap.streak_count + 2

\* C10 amended: such a pair leaves streak_count at the value one successful
\* complete produces (previous + 1 when last_completed was yesterday, 1
\* otherwise), never two higher: both sessions write the same absolute value.
C10_RaceSingleIncrement ==
    RaceFinished =>
        /\ habit.streak_count =
              IF req[1].snap.last_completed = req[1].today - 1
              THEN req[1].snap.streak_count + 1
              ELSE 1
        /\ habit.streak_count <= req[1].snap.streak_count + 1

\* the race happened on a habit with a running streak completed yesterday
C10_Witness ==
    /\ RaceFinished
    /\ req[1].snap.last_completed = req[1].today - 1
    /\ req[1].snap.streak_count >= 1
    /\ habit.streak_count = req[1].snap.streak_count + 1
    /\ logs[req[1].today] = 2

\* ---- C11 ----
\* C11: under every interleaving of two concurrent complete requests for the
\* same habit and day, at most one CompletionLog row for that date exists
\* after both have finished.
C11_OneRowAfterRace ==
    (/\ \A w \in Workers : req[w].pc \in {"done", "failed"}
     /\ req[1].today = req[2].today
     /\ req[1].today \in Dates) =>
        logs[req[1].today] <= 1

\* ---- C20 ----
\* C20: a completion is atomic. The step that ends a request's commit either
\* persists both the habit update (last_completed = today) and one new
\* CompletionLog row for today, or, when the commit fails, leaves the Habit
\* row and the CompletionLog rows as they were; no other step of a complete
\* request writes either.
C20_CompletionAtomic ==
    [][/\ \A w \in Workers :
            (req[w].pc = "checked" /\ req'[w].pc # "checked") =>
                \/ /\ req'[w].pc = "done"
                   /\ habit'.last_completed = req[w].today
                   /\ logs' = AddLog(logs, req[w].today)
                \/ /\ req'[w].pc = "failed"
                   /\ habit' = habit
                   /\ logs' = logs
       /\ (habit' # habit \/ logs' # logs) =>
            \E w \in Workers : req[w].pc = "checked" /\ req'[w].pc = "done"]_vars

\* a commit failed on a completion that would have continued a streak, and
\* neither the streak nor a row for that day was stored
C20_Witness ==
    \E w \in Workers :
        /\ req[w].pc = "failed"
        /\ req[w].cur.streak_count >= 2
        /\ req[w].cur.last_completed = req[w].today
        /\ habit = req[w].snap
        /\ logs[req[w].today] = 0

\* ---- subscription and payments: properties ----

\* C12: on each of the four webhook endpoints, an event whose signature is
\* missing or does not verify never reaches an event handler and changes no
\* user, subscription or payment record, whatever the configuration
C12_UnsignedNeverHandled ==
    (lastEv.kind = "webhook" /\ ~lastEv.sig) =>
        /\ ~lastEv.handled
        /\ DB = lastEv.pre

\* a genuine failure / renewal event about this user was handled
FailureDelivered ==
    /\ lastEv.kind = "webhook" /\ lastEv.sig /\ lastEv.handled
    /\ lastEv.ev.type \in FailureEvents
    /\ FoundIn(lastEv.pre.user, lastEv.ev)

RenewalDelivered ==
    /\ lastEv.kind = "webhook" /\ lastEv.sig /\ lastEv.handled
    /\ lastEv.ev.type \in RenewalEvents
    /\ FoundIn(lastEv.pre.user, lastEv.ev)

\* C13: after the third consecutive payment-failure event with no successful
\* payment event in between the user is on tier 'free', status 'expired',
\* habit_limit 3; a successful payment event leaves payment_failures at 0; a
\* failure event that is not the third since the last success does not change
\* the tier
C13_ThreeFailuresDowngrade ==
    /\ (FailureDelivered /\ failStreak >= FailureThreshold) =>
          /\ user.tier = "free"
          /\ user.status = "expired"
          /\ user.habit_limit = FreeHabitLimit
    /\ RenewalDelivered => user.payment_failures = 0
    /\ (FailureDelivered /\ failStreak < FailureThreshold) =>
          user.tier = lastEv.pre.user.tier

\* C14: delivering the genuine event that was handled just before once more leaves
\* tier, status, habit_limit, payment_failures and the Payment and Subscription
\* rows as the first delivery left them
C14_RedeliveryIdempotent ==
    (lastEv.repeat /\ lastEv.sig) =>
        /\ user.tier = lastEv.pre.user.tier
        /\ user.status = lastEv.pre.user.status
        /\ user.habit_limit = lastEv.pre.user.habit_limit
        /\ user.payment_failures = lastEv.pre.user.payment_failures
        /\ payments = lastEv.pre.payments
        /\ subscriptions = lastEv.pre.subscriptions

\* the event the provider sends because the subscription was cancelled there
ConsequenceOfCancel(e) ==
    \/ e.provider = "stripe" /\ e.type = "customer.subscription.updated"
                             /\ e.opt = "cancel_at_period_end"
    \/ e.provider = "paypal" /\ e.type = "BILLING.SUBSCRIPTION.CANCELLED"

\* C19: after a cancellation through the cancel route, the provider's event
\* about that cancellation, delivered before subscription_end_date has passed,
\* leaves the tier unchanged and is_premium_active() true
C19_CancelKeepsAccess ==
    (/\ lastEv.kind = "webhook" /\ lastEv.sig /\ lastEv.handled
     /\ lastEv.after = lastEv.ev.provider
     /\ ConsequenceOfCancel(lastEv.ev)
     /\ lastEv.pre.user.end = "future") =>
        /\ user.tier = lastEv.pre.user.tier
        /\ is_premium_active(user)

\* ---- badges: properties ----

\* C15: there is at most one UserBadge row per badge; a call made when nothing
\* changed since the previous call awards nothing; a call awards every active
\* badge not yet earned whose requirement is met
C15_AwardOnceAndAll ==
    /\ \A i \in BadgeIds : earned[i] <= 1
    /\ (lastCheck.called /\ lastCheck.again) => lastCheck.awarded = {}
    /\ lastCheck.called => \A i \in lastCheck.avail \cap lastCheck.met : earned[i] = 1

\* ---- habit limit, ownership, purge: properties ----

\* C16: a user on the free tier never has more than habit_limit non-archived
\* habits
C16_FreeTierLimit ==
    user.tier = "free" => Cardinality(ActiveHabits(habitRows)) <= user.habit_limit

\* the account has been soft-deleted for at least 30 days
GraceOver(a, t) ==
    /\ a.account_deleted
    /\ a.deletion_scheduled_date # NULL
    /\ t - a.deletion_scheduled_date >= GraceDays

\* C17: a user, a habit or a completion log is hard-deleted only when the
\* account has account_deleted set and a deletion_scheduled_date at least 30
\* days back; a run of the purge job leaves every other account unchanged
C17_PurgeOnlyExpired ==
    [][\A u \in Users :
          /\ (\/ accounts[u].exists /\ ~accounts'[u].exists
              \/ accounts'[u].habits < accounts[u].habits
              \/ accounts'[u].logs < accounts[u].logs) => GraceOver(accounts[u], now)
          /\ (lastAct' = "purge" /\ ~GraceOver(accounts[u], now)) =>
                accounts'[u] = accounts[u]]_vars

C17_Witness ==
    /\ lastAct = "purge"
    /\ \E u, v \in Users :
          /\ ~accounts[u].exists
          /\ accounts[v].exists /\ accounts[v].account_deleted
          /\ now - accounts[v].deletion_scheduled_date < GraceDays
          /\ accounts[v].habits = 1 /\ accounts[v].logs = 1

\* C18: a complete, undo, edit, delete, archive or unarchive request by a user
\* who is not the owner leaves the habit's fields and its CompletionLog rows
\* unchanged
C18_NonOwnerFrame ==
    [][lastReq'.user # Owner => (habit' = habit /\ logs' = logs /\ meta' = meta)]_vars

C18_Witness ==
    /\ lastReq.user # Owner
    /\ lastReq.route = "delete"
    /\ meta.exists
    /\ habit.streak_count >= 1
    /\ logs[habit.last_completed] = 1

\* ---- subscription and payments: further properties ----

\* C21: every invoice.payment_failed event of a known Stripe customer raises
\* payment_failures by exactly one and adds one failed Payment row, also when
\* a Payment row with that invoice id is already stored
C21_EveryFailureCounted ==
    (/\ lastEv.kind = "webhook" /\ lastEv.handled
     /\ lastEv.ev.type = "invoice.payment_failed"
     /\ lastEv.pre.user.stripe_customer) =>
        /\ user.payment_failures = lastEv.pre.user.payment_failures + 1
        /\ Cardinality(payments) = Cardinality(lastEv.pre.payments) + 1
        /\ \E p \in payments : p.txn = <<"in", lastEv.ev.id>> /\ p.status = "failed"

\* the provider events of C22: every webhook event but the Stripe checkout
LifetimeEvent(e) ==
    \/ e.provider = "stripe" /\ e.type \in {"customer.subscription.deleted",
                                            "customer.subscription.updated",
                                            "invoice.payment_failed",
                                            "invoice.payment_succeeded"}
    \/ e.provider = "paypal" /\ e.type \in {"BILLING.SUBSCRIPTION.CANCELLED",
                                            "BILLING.SUBSCRIPTION.SUSPENDED"}
    \/ e.provider \in {"coinbase", "tilopay"}

\* C22: a genuine provider event about a subscription the user has at that
\* provider, handled while subscription_tier is 'lifetime', leaves the tier
\* 'lifetime'
C22_LifetimeStays ==
    (/\ lastEv.kind = "webhook" /\ lastEv.sig /\ lastEv.handled
     /\ LifetimeEvent(lastEv.ev)
     /\ lastEv.ev.provider = "stripe" => lastEv.pre.user.stripe_sub
     /\ lastEv.ev.provider = "paypal" => lastEv.pre.user.paypal_sub
     /\ lastEv.pre.user.tier = "lifetime") =>
        user.tier = "lifetime"

\* ---- the subscription-expiry sweep: properties ----

\* the users a run has to downgrade
Expired(m) == m.tier \in {"monthly", "annual"} /\ m.end = "past"

\* C23: after a run of check_expired_subscriptions every user whose tier was
\* 'monthly' or 'annual' with subscription_end_date at or before the run is
\* on the free tier with habit_limit 3, and the returned count is the number
\* of those users
C23_SweepDowngradesExpired ==
    lastSweep.ran =>
        /\ \A u \in Users :
              Expired(lastSweep.pre[u]) =>
                  /\ members[u].tier = "free"
                  /\ members[u].habit_limit = FreeHabitLimit
        /\ lastSweep.count = Cardinality({u \in Users : Expired(lastSweep.pre[u])})

\* ---- the purge job: completeness ----

\* C24: after a run of delete_expired_accounts no user remains that was
\* soft-deleted 30 or more days before the run, whatever rows depend on the
\* user, unless its deletion failed for an outside cause; such a failure
\* leaves that user unchanged and the other selected users are deleted
C24_PurgeRemovesAllExpired ==
    [][lastAct' = "purge" =>
          \A u \in Users :
              (accounts[u].exists /\ GraceOver(accounts[u], now)) =>
                  IF u \in lastPurge'
                  THEN accounts'[u] = accounts[u]
                  ELSE ~accounts'[u].exists]_vars

\* ---- a challenge: properties ----

\* C25: the number of active participants never exceeds max_participants
\* after any sequence of accept_invite and leave requests, and an
\* accept_invite with an expired invite neither adds nor reactivates a
\* participant
C25_ParticipantLimit ==
    [][/\ Cardinality(ActiveParticipants(part')) <= cap'
       /\ (lastJoin'.route = "accept" /\ lastJoin'.inv.expired) => part' = part]_vars

\* a user who left is refused at the limit, and an expired invite was opened before
C25_Witness ==
    /\ lastJoin.route = "accept"
    /\ lastJoin.result = "full"
    /\ lastJoin.was = "left"
    /\ Cardinality(ActiveParticipants(part)) = cap
    /\ \E i \in InviteIds : invites[i].exists /\ invites[i].status = "expired"

\* C26: a second user who opens an unexpired shareable link through which a
\* first user has joined becomes an active participant, subject to
\* max_participants
C26_LinkAdmitsMany ==
    (/\ lastJoin.route = "accept"
     /\ lastJoin.inv.shareable /\ ~lastJoin.inv.expired
     /\ lastJoin.inv.status = "accepted"
     /\ lastJoin.was = "none"
     /\ lastJoin.count < cap) =>
        part[lastJoin.user] = "active"

\* ---- habits linked to a challenge: properties ----

\* C27: link_habit of a habit that was linked and unlinked before succeeds and
\* leaves the habit actively linked, and there is at most one
\* HabitChallengeLink row per (habit, challenge)
C27_RelinkSucceeds ==
    /\ \A h \in LinkHabits : links[h].rows <= 1
    /\ (lastLink.route = "link" /\ lastLink.was = "inactive") =>
          /\ lastLink.ok
          /\ LinkState(links[lastLink.habit]) = "active"

\* C29: after update_progress the cached statistics are the sums of
\* streak_count, longest_streak and the CompletionLog count over the actively
\* linked habits and the latest last_completed among them (0, 0, 0, null
\* without an active link); a participant who has left has the zero values
C29_ProgressIsAggregate ==
    LET A == ActiveLinks(links)
    IN /\ (lastLink.ok /\ lastLink.route \in {"link", "unlink", "update_progress"}) =>
             /\ progress.current_streak =
                   SumOver(A, [h \in LinkHabits |-> hstats[h].habit.streak_count])
             /\ progress.longest_streak =
                   SumOver(A, [h \in LinkHabits |-> hstats[h].habit.longest_streak])
             /\ progress.total_completions =
                   SumOver(A, [h \in LinkHabits |-> hstats[h].completions])
             /\ progress.last_activity =
                   LatestOver(A, [h \in LinkHabits |-> hstats[h].habit.last_completed])
       /\ pstatus = "left" => progress = ZeroProgress

C30_OneReminderPerDate ==
    /\ \A d \in RemDates : sent[d] <= 1
    /\ lastRun.result = "sent" =>
          /\ ruser.email_notifications_enabled
          /\ should_send_reminder_today(ruser, lastRun.date)
          /\ incomplete_habits(rhabits, lastRun.date) # {}
    /\ ruser.last_reminder_sent # NULL => sent[ruser.last_reminder_sent] > 0

TypeOK ==
    /\ clock \in Clock
    /\ tz \in TzOffsets
    /\ habit.streak_count \in 0..(MaxDay + 1)
    /\ habit.longest_streak \in 0..(MaxDay + 1)
    /\ habit.last_completed \in Dates \cup {NULL}
    /\ logs \in [Dates -> 0..MaxRows]
====
